---- MODULE Spec2Model ----
(***************************************************************************)
(* A model of autoTest.py, the regression-comparison script of the         *)
(* Tamarin prover case studies: splitFile, processFile, compareLines,      *)
(* processTimeResults and the part of main that drives them.               *)
(*                                                                         *)
(* Text is modelled as text: files are strings, a line is a string that    *)
(* ends with its "\n" as Python's file iteration yields it, and the        *)
(* string operations of the script (in, split, strip, float, str) are      *)
(* operators that compute what Python computes.                            *)
(*                                                                         *)
(* Numbers: a float is the exact decimal [num, den] (den a power of ten)   *)
(* that its token denotes; arithmetic on it is exact.  Tokens that are not *)
(* plain decimals (exponents, inf, nan, underscores) are outside the       *)
(* lines the model draws.  Thresholds are counted in hundredths.           *)
(* The escape character chr(27) is written "^".                            *)
(***************************************************************************)
EXTENDS Integers, Sequences, FiniteSets, TLC

\* ------------------------------------------------------------------------
\* Python string operations
\* ------------------------------------------------------------------------

\* s[i] of Python, with i counted from 0.
At(s, i) == SubSeq(s, i + 1, i + 1)

\* s[lo:hi] of Python (0-based, hi excluded).
Slice(s, lo, hi) == SubSeq(s, lo + 1, hi)

\* `p in s`.
Contains(s, p) ==
    \E i \in 0..(Len(s) - Len(p)) : Slice(s, i, i + Len(p)) = p

\* s.find(p): the first index of p in s, -1 when there is none.
Find(s, p) ==
    IF Contains(s, p)
    THEN CHOOSE i \in 0..(Len(s) - Len(p)) :
            /\ Slice(s, i, i + Len(p)) = p
            /\ \A j \in 0..(i - 1) : Slice(s, j, j + Len(p)) # p
    ELSE -1

\* s.split(sep) for a non-empty sep.
RECURSIVE Split(_, _)
Split(s, sep) ==
    LET i == Find(s, sep)
    IN  IF i = -1 THEN <<s>>
        ELSE <<Slice(s, 0, i)>> \o Split(Slice(s, i + Len(sep), Len(s)), sep)

Whitespace == {" ", "\n", "\t"}

RECURSIVE LStrip(_)
LStrip(s) ==
    IF s # "" /\ At(s, 0) \in Whitespace THEN LStrip(Slice(s, 1, Len(s))) ELSE s

RECURSIVE RStrip(_)
RStrip(s) ==
    IF s # "" /\ At(s, Len(s) - 1) \in Whitespace
    THEN RStrip(Slice(s, 0, Len(s) - 1)) ELSE s

\* s.strip().
Strip(s) == LStrip(RStrip(s))

\* The length of the first whitespace-free run of s.
RECURSIVE TokenLen(_)
TokenLen(s) ==
    IF s = "" \/ At(s, 0) \in Whitespace THEN 0
    ELSE 1 + TokenLen(Slice(s, 1, Len(s)))

\* s.split(): the whitespace-separated tokens of s.
RECURSIVE SplitWs(_)
SplitWs(s) ==
    LET t == LStrip(s)
        n == TokenLen(t)
    IN  IF t = "" THEN <<>>
        ELSE <<Slice(t, 0, n)>> \o SplitWs(Slice(t, n, Len(t)))

\* `for line in file`: the lines of a text, each with its "\n" (the last
\* one without, when the text does not end with "\n").
RECURSIVE ReadLines(_)
ReadLines(s) ==
    LET i == Find(s, "\n")
    IN  IF s = "" THEN <<>>
        ELSE IF i = -1 THEN <<s>>
        ELSE <<Slice(s, 0, i + 1)>> \o ReadLines(Slice(s, i + 1, Len(s)))

\* ------------------------------------------------------------------------
\* float(token) and str(float)
\* ------------------------------------------------------------------------

Digits == "0123456789"

IsDigits(s) == \A i \in 0..(Len(s) - 1) : Contains(Digits, At(s, i))

RECURSIVE Pow10(_)
Pow10(n) == IF n = 0 THEN 1 ELSE 10 * Pow10(n - 1)

\* int(s) of a digit string ("" counts 0).
RECURSIVE DigitsVal(_)
DigitsVal(s) ==
    IF s = "" THEN 0
    ELSE 10 * DigitsVal(Slice(s, 0, Len(s) - 1)) + Find(Digits, At(s, Len(s) - 1))

Unsigned(u) == IF u # "" /\ At(u, 0) \in {"-", "+"} THEN Slice(u, 1, Len(u)) ELSE u
IntPart(u)  == Split(Unsigned(u), ".")[1]
FracPart(u) == IF Contains(Unsigned(u), ".")
               THEN Slice(Unsigned(u), Len(IntPart(u)) + 1, Len(Unsigned(u)))
               ELSE ""

\* Whether float(u) returns (TRUE) or raises ValueError (FALSE), for the
\* decimal literals: [sign] digits [. digits], with a digit somewhere.
IsFloat(u) ==
    /\ IsDigits(IntPart(u))
    /\ IsDigits(FracPart(u))
    /\ Len(IntPart(u)) + Len(FracPart(u)) > 0

\* A float with its trailing fraction zeros dropped.
RECURSIVE Normal(_)
Normal(f) ==
    IF f.den > 1 /\ f.num % 10 = 0
    THEN Normal([num |-> f.num \div 10, den |-> f.den \div 10]) ELSE f

\* float(u), for IsFloat(u).
Float(u) ==
    LET mag == DigitsVal(IntPart(u)) * Pow10(Len(FracPart(u))) + DigitsVal(FracPart(u))
    IN  Normal([num |-> IF u # "" /\ At(u, 0) = "-" THEN -mag ELSE mag,
                den |-> Pow10(Len(FracPart(u)))])

\* The int 0 the times start from.
Zero == [num |-> 0, den |-> 1]

Abs(n) == IF n < 0 THEN -n ELSE n

RECURSIVE NatStr(_)
NatStr(n) ==
    IF n < 10 THEN At(Digits, n) ELSE NatStr(n \div 10) \o At(Digits, n % 10)

\* The digits of n \in 0..den-1 as a fraction of den, with its leading zeros.
RECURSIVE FracStr(_, _)
FracStr(n, den) ==
    IF den = 1 THEN ""
    ELSE At(Digits, n \div (den \div 10)) \o FracStr(n % (den \div 10), den \div 10)

\* str(f): the shortest decimal, with at least one fraction digit.
Str(f) ==
    LET g == Normal(f)
    IN  (IF g.num < 0 THEN "-" ELSE "")
        \o NatStr(Abs(g.num) \div g.den) \o "."
        \o (IF g.den = 1 THEN "0" ELSE FracStr(Abs(g.num) % g.den, g.den))
\* ------------------------------------------------------------------------
\* The script's constants
\* ------------------------------------------------------------------------

ESC == "^"

\* class bcolors
HEADER  == ESC \o "[95m"
OKBLUE  == ESC \o "[94m"
OKGREEN == ESC \o "[92m"
WARNING == ESC \o "[93m"
FAILC   == ESC \o "[91m"
ENDC    == ESC \o "[0m"
BOLD    == ESC \o "[1m"

SUCCESS == 0
FAIL == -1

\* ------------------------------------------------------------------------
\* similar: difflib.SequenceMatcher(None, a, b).ratio(), as [num, den].
\* Lines stay under the 200 characters from which difflib's autojunk
\* heuristic applies, so no character of b is junk.
\* ------------------------------------------------------------------------

\* The length of the common run of a from i and b from j, within ahi, bhi.
RECURSIVE RunLen(_, _, _, _, _, _)
RunLen(a, b, i, j, ahi, bhi) ==
    IF i >= ahi \/ j >= bhi \/ At(a, i) # At(b, j) THEN 0
    ELSE 1 + RunLen(a, b, i + 1, j + 1, ahi, bhi)

SetMax(S) == CHOOSE x \in S : \A y \in S : y <= x
SetMin(S) == CHOOSE x \in S : \A y \in S : x <= y

\* find_longest_match(alo, ahi, blo, bhi): <<i, j, k>>, the longest block
\* a[i:i+k] = b[j:j+k] in the ranges, the one that starts earliest in a and,
\* of those, earliest in b; <<alo, blo, 0>> when nothing matches.
find_longest_match(a, b, alo, ahi, blo, bhi) ==
    LET I == alo..(ahi - 1)
        J == blo..(bhi - 1)
        len == [i \in I, j \in J |-> RunLen(a, b, i, j, ahi, bhi)]
        k == SetMax({0} \cup {len[i, j] : i \in I, j \in J})
        bi == SetMin({i \in I : \E j \in J : len[i, j] = k})
        bj == SetMin({j \in J : len[bi, j] = k})
    IN  IF k = 0 THEN <<alo, blo, 0>> ELSE <<bi, bj, k>>

\* The summed sizes of get_matching_blocks() over the ranges: the longest
\* match, then the same to its left and to its right.
RECURSIVE MatchSize(_, _, _, _, _, _)
MatchSize(a, b, alo, ahi, blo, bhi) ==
    LET m == find_longest_match(a, b, alo, ahi, blo, bhi)
        i == m[1]
        j == m[2]
        k == m[3]
    IN  IF k = 0 THEN 0
        ELSE k
             + (IF alo < i /\ blo < j THEN MatchSize(a, b, alo, i, blo, j) ELSE 0)
             + (IF i + k < ahi /\ j + k < bhi
                THEN MatchSize(a, b, i + k, ahi, j + k, bhi) ELSE 0)

\* ratio(): 2.0 * matches / length, and 1.0 for two empty strings.
similar(a, b) ==
    IF Len(a) + Len(b) = 0 THEN [num |-> 1, den |-> 1]
    ELSE [num |-> 2 * MatchSize(a, b, 0, Len(a), 0, Len(b)), den |-> Len(a) + Len(b)]

\* ------------------------------------------------------------------------
\* extractFloat
\* ------------------------------------------------------------------------

RECURSIVE FloatsOf(_)
FloatsOf(toks) ==
    IF toks = <<>> THEN <<>>
    ELSE LET u == Split(Head(toks), "s")[1]
         IN  (IF IsFloat(u) THEN <<Float(u)>> ELSE <<>>) \o FloatsOf(Tail(toks))

\* Every token of the line that float() accepts once cut at its first 's'.
extractFloat(line) == FloatsOf(SplitWs(line))

\* ------------------------------------------------------------------------
\* State
\* ------------------------------------------------------------------------

VARIABLES
    G,          \* the module's globals (the options), by their names
    args,       \* the parsed command line of main
    disk,       \* the named files of the working directory: [ex, data]
    parts,      \* the directory tests/: parts[n] is the text of n.part
    handles,    \* the file objects opened and not closed: <<mode, name>>
    stdout,     \* what was printed
    pc,         \* where the script is
    exc,        \* the exception that ended the run, "" for none
    mn,         \* main's locals
    sf,         \* splitFile's locals
    pf,         \* processFile's locals
    tr,         \* processTimeResults's locals
    cl,         \* history: the last call of compareLines and the streams before it
    graded      \* history: the cycles processTimeResults wrote an entry for

vars == <<G, args, disk, parts, handles, stdout, pc, exc, mn, sf, pf, tr, cl, graded>>

\* The names of lines 20-25, and the scratch files of lines 373 and 387.
filename       == "testoutput.txt"
dirtests       == "tests"
pathTmp        == "path.tmp"
outTestsErrors == "testsResults_errors.txt"
outTestsTime   == "testsResults_time.txt"
finalTime      == "testsTimeResults.txt"
timesTmp       == "times.tmp"

directoriesTmp == "directories.tmp"

FileNames ==
    {filename, dirtests, pathTmp, outTestsErrors, outTestsTime, finalTime, timesTmp,
     directoriesTmp}

None == <<>>

\* The globals as the module sets them (lines 28-45); thresholds in hundredths.
Globals0 ==
    [ CASE_REG_DIR |-> "case-studies-regression/", CASE_DIR |-> "case-studies/",
      LIMIT_ERROR_LINE |-> 100, OPT_WRITE_FILENAME |-> TRUE,
      OPT_WRITE_ALL_TIMES |-> FALSE, OPT_TIME_GAP |-> 20, OPT_TIME |-> TRUE,
      EXCEPT_DIR |-> None, DISPLAY_TIMES |-> FALSE, DISPLAY_ERRORS |-> FALSE,
      GRADUATION_TIME |-> None, NO_DUPLICATE |-> FALSE, OPT_DFF |-> FALSE,
      OPT_YES |-> FALSE, OPT_NOD |-> FALSE, OPT_NOM |-> FALSE, OPT_NOKEEP |-> FALSE ]

\* The command line when no option is given (lines 227-246): an option that
\* takes a value is None or <<value>>, a number in hundredths.
NoArgs ==
    [ limit_error_line |-> None, without_filename |-> FALSE,
      show_all_times |-> FALSE, time_gap |-> None, without_times |-> FALSE,
      except_dir |-> None, display_times |-> FALSE, display_errors |-> FALSE,
      time_graduation |-> None, no_duplicate |-> FALSE, fast |-> FALSE,
      delete_final_files |-> FALSE, accept_recommanded_deletions |-> FALSE,
      no_delete |-> FALSE, no_make |-> FALSE, no_git_keep |-> FALSE ]

NoFile == [ex |-> FALSE, data |-> ""]
EmptyDisk == [f \in FileNames |-> NoFile]

\* open(name, "w"): the file exists and is empty.
Truncate(d, name) == [d EXCEPT ![name] = [ex |-> TRUE, data |-> ""]]

\* open(name, "a+"): the file exists, with the text it had.
OpenAppend(d, name) == [d EXCEPT ![name].ex = TRUE]

\* file.write(text) at the end of the file.
Write(d, name, text) == [d EXCEPT ![name].data = @ \o text]

\* colorWrite(color, text, file)
colorWrite(d, color, text, name) == Write(d, name, color \o text \o ENDC)

\* rm name
Remove(d, name) == [d EXCEPT ![name] = NoFile]

\* r <= h / 100, for a ratio r = [num, den] with den > 0.
RatioLe(r, h) == r.num * 100 <= h * r.den

\* ------------------------------------------------------------------------
\* splitFile, one action per step: the pattern, the first fragment and the
\* open of the transcript (lines 69-76), one line of the transcript (77-85),
\* the end of the with block.
\* ------------------------------------------------------------------------

\* files(), line 63: the name of the n-th fragment in tests/.
PartName(n) == NatStr(n) \o ".part"

\* Lines 69-72: "diff -r" and one qualifier per excluded directory.
RECURSIVE Qualifiers(_)
Qualifiers(dirs) ==
    IF dirs = <<>> THEN ""
    ELSE " '--exclude=" \o Head(dirs) \o "'" \o Qualifiers(Tail(dirs))

SplitPattern == "diff -r" \o Qualifiers(G.EXCEPT_DIR)

\* Line 85: the first line of the fragment that an item opens.
FragmentHeader(item) == "/* file : " \o Split(Strip(item), " ")[1] \o " */\n"

\* Lines 83-85: each item after the first opens the next fragment.
OpenFragments(ps, items) ==
    ps \o [i \in 1..(Len(items) - 1) |-> FragmentHeader(items[i + 1])]

\* Lines 78-85 as they would be if the text before a marker, and a line
\* without one, went to the first fragment: outfile never rebound.
SplitLine_FirstFragment(ps, line, pat) ==
    LET items == Split(line, pat)
    IN  OpenFragments([ps EXCEPT ![1] = @ \o items[1]], items)

\* Lines 78-85: the fragments once a line of the transcript is handled.
SplitLine(ps, line, pat) ==
    LET items == Split(line, pat)
        n == Len(ps)
    IN  OpenFragments([ps EXCEPT ![n] = @ \o items[1]], items)

Split_Open ==
    /\ pc = "split"
    /\ parts' = <<"">>
    /\ sf' = [lines |-> ReadLines(disk[filename].data), k |-> 0, pat |-> SplitPattern]
    /\ handles' = handles \cup {<<"w", dirtests \o "/" \o PartName(1)>>, <<"r", filename>>}
    /\ pc' = "split_loop"
    /\ UNCHANGED <<G, args, disk, stdout, exc, mn, pf, tr, cl, graded>>

Split_Line ==
    /\ pc = "split_loop"
    /\ sf.k < Len(sf.lines)
    /\ parts' = SplitLine(parts, sf.lines[sf.k + 1], sf.pat)
    /\ handles' = handles \cup {<<"w", dirtests \o "/" \o PartName(n)>> : n \in 1..Len(parts')}
    /\ sf' = [sf EXCEPT !.k = @ + 1]
    /\ UNCHANGED <<G, args, disk, stdout, pc, exc, mn, pf, tr, cl, graded>>

Split_Close ==
    /\ pc = "split_loop"
    /\ sf.k >= Len(sf.lines)
    /\ handles' = handles \ {<<"r", filename>>}
    /\ pc' = "ls"
    /\ UNCHANGED <<G, args, disk, parts, stdout, exc, mn, sf, pf, tr, cl, graded>>

\* ------------------------------------------------------------------------
\* compareLines
\* ------------------------------------------------------------------------

\* Line 95 as it would read had the marker been looked for in line1 alone.
IsTimePair_FirstLineOnly(line1, line2) == Contains(line1, "processing time")

\* Line 95: the test that sends a pair to the time stream.
IsTimePair(line1, line2) == Contains(line1 \o line2, "processing time")

\* Line 98: the test that sends another pair to the error stream.
IsErrorPair(line1, line2) == RatioLe(similar(line1, line2), G.LIMIT_ERROR_LINE)

\* compareLines as it would be with `if` for the `elif` of line 98: a time
\* pair is tested for resemblance too.
compareLines_IfForElif(d, line1, line2, fname) ==
    LET d0 == OpenAppend(OpenAppend(d, outTestsErrors), outTestsTime)
        head == "**" \o Strip(fname) \o "**\n"
        body == line1 \o "\n" \o line2 \o "\n"
        d1 == IF IsTimePair(line1, line2)
              THEN colorWrite(colorWrite(d0, HEADER, head, outTestsTime), OKBLUE, body, outTestsTime)
              ELSE d0
    IN  IF IsErrorPair(line1, line2)
        THEN colorWrite(colorWrite(d1, HEADER, head, outTestsErrors), FAILC, body, outTestsErrors)
        ELSE d1

\* The files after compareLines(line1, line2, fname).
compareLines(d, line1, line2, fname) ==
    LET d0 == OpenAppend(OpenAppend(d, outTestsErrors), outTestsTime)
        head == "**" \o Strip(fname) \o "**\n"
        body == line1 \o "\n" \o line2 \o "\n"
    IN  IF IsTimePair(line1, line2)
        THEN colorWrite(colorWrite(d0, HEADER, head, outTestsTime), OKBLUE, body, outTestsTime)
        ELSE IF IsErrorPair(line1, line2)
        THEN colorWrite(colorWrite(d0, HEADER, head, outTestsErrors), FAILC, body, outTestsErrors)
        ELSE d0

NoCall == [n |-> 0, line1 |-> "", line2 |-> "", err0 |-> "", time0 |-> ""]

\* ------------------------------------------------------------------------
\* processFile, one action per step: the opening and the filter (lines
\* 108-113), one turn of the pairing loop (115-117), the close (119).
\* ------------------------------------------------------------------------

\* The number n of the file tests/n.part.
PartNumber(path) == DigitsVal(Split(Split(path, "/")[2], ".")[1])

\* Lines 111-113: the lines that start with "<" or ">".
RECURSIVE Retain(_)
Retain(lines) ==
    IF lines = <<>> THEN <<>>
    ELSE (IF At(Head(lines), 0) = "<" \/ At(Head(lines), 0) = ">"
          THEN <<Head(lines)>> ELSE <<>>) \o Retain(Tail(lines))

NoPf == [path |-> "", fname |-> "", listResult |-> <<>>, i |-> 0]

PF_Open ==
    /\ pc = "pf_open"
    /\ LET lines == ReadLines(parts[PartNumber(pf.path)])
           first == IF lines = <<>> THEN "" ELSE Head(lines)
           rest  == IF lines = <<>> THEN <<>> ELSE Tail(lines)
       IN  pf' = [pf EXCEPT !.fname = first,
                            !.listResult = <<first>> \o Retain(rest),
                            !.i = 1]
    /\ handles' = handles \cup {<<"r", pf.path>>}
    /\ pc' = "pf_loop"
    /\ UNCHANGED <<G, args, disk, parts, stdout, exc, mn, sf, tr, cl, graded>>

\* listResult[i] of Python.
Item(i) == pf.listResult[i + 1]

\* Line 116 reads listResult[i+1] past the end of the list.
PF_Overrun == At(Item(pf.i), 0) = "<" /\ pf.i + 1 >= Len(pf.listResult)

\* Line 116 holds: a "<" line followed by a ">" line.
PF_Pair ==
    /\ At(Item(pf.i), 0) = "<"
    /\ pf.i + 1 < Len(pf.listResult)
    /\ At(Item(pf.i + 1), 0) = ">"

PF_Iter ==
    /\ pc = "pf_loop"
    /\ pf.i < Len(pf.listResult)
    /\ IF PF_Overrun
       THEN /\ exc' = "IndexError"
            /\ pc' = "raised"
            /\ UNCHANGED <<disk, pf, cl>>
       ELSE /\ disk' = IF PF_Pair
                       THEN compareLines(disk, Item(pf.i), Item(pf.i + 1), pf.fname)
                       ELSE disk
            /\ cl' = IF PF_Pair
                     THEN [n |-> cl.n + 1, line1 |-> Item(pf.i), line2 |-> Item(pf.i + 1),
                           err0 |-> disk[outTestsErrors].data,
                           time0 |-> disk[outTestsTime].data]
                     ELSE cl
            /\ pf' = [pf EXCEPT !.i = @ + 1]
            /\ UNCHANGED <<pc, exc>>
    /\ UNCHANGED <<G, args, parts, handles, stdout, mn, sf, tr, graded>>

PF_Close ==
    /\ pc = "pf_loop"
    /\ pf.i >= Len(pf.listResult)
    /\ handles' = handles \ {<<"r", pf.path>>}
    /\ pc' = "paths"
    /\ UNCHANGED <<G, args, disk, parts, stdout, exc, mn, sf, pf, tr, cl, graded>>

\* ------------------------------------------------------------------------
\* main, lines 350-358: list tests/ and classify each fragment
\* ------------------------------------------------------------------------

\* The byte order of the characters of a fragment's name.
Ord(c) == Find(".0123456789aprt", c)

\* a sorts before b, byte by byte, as ls sorts in the C locale.
RECURSIVE NameBefore(_, _)
NameBefore(a, b) ==
    IF a = "" THEN b # ""
    ELSE IF b = "" THEN FALSE
    ELSE IF At(a, 0) = At(b, 0) THEN NameBefore(Slice(a, 1, Len(a)), Slice(b, 1, Len(b)))
    ELSE Ord(At(a, 0)) < Ord(At(b, 0))

RECURSIVE Concat(_)
Concat(ss) == IF ss = <<>> THEN "" ELSE Head(ss) \o Concat(Tail(ss))

\* ls tests: the names of the fragments, sorted, one per line.
Listing(n) ==
    Concat(SortSeq([k \in 1..n |-> PartName(k) \o "\n"], NameBefore))

NoMain == [paths |-> <<>>, k |-> 0, excluded |-> "", result |-> None]

\* Lines 350-352.
Main_Ls ==
    /\ pc = "ls"
    /\ disk' = [disk EXCEPT ![pathTmp] = [ex |-> TRUE, data |-> Listing(Len(parts))]]
    /\ mn' = [mn EXCEPT !.paths = ReadLines(Listing(Len(parts))), !.k = 0]
    /\ handles' = handles \cup {<<"r", pathTmp>>}
    /\ pc' = "paths"
    /\ UNCHANGED <<G, args, parts, stdout, exc, sf, pf, tr, cl, graded>>

\* line.strip('\n')
RECURSIVE StripNl(_)
StripNl(s) ==
    IF s # "" /\ At(s, 0) = "\n" THEN StripNl(Slice(s, 1, Len(s)))
    ELSE IF s # "" /\ At(s, Len(s) - 1) = "\n" THEN StripNl(Slice(s, 0, Len(s) - 1))
    ELSE s

\* Lines 353-356: the next line of the listing, and the call of processFile.
Main_NextPath ==
    /\ pc = "paths"
    /\ mn.k < Len(mn.paths)
    /\ LET path == StripNl(mn.paths[mn.k + 1])
       IN  /\ pf' = IF path # "" THEN [NoPf EXCEPT !.path = "tests/" \o path] ELSE pf
           /\ pc' = IF path # "" THEN "pf_open" ELSE "paths"
    /\ mn' = [mn EXCEPT !.k = @ + 1]
    /\ UNCHANGED <<G, args, disk, parts, handles, stdout, exc, sf, tr, cl, graded>>

\* Line 358.
Main_PathsDone ==
    /\ pc = "paths"
    /\ mn.k >= Len(mn.paths)
    /\ handles' = handles \ {<<"r", pathTmp>>}
    /\ pc' = "time"
    /\ UNCHANGED <<G, args, disk, parts, stdout, exc, mn, sf, pf, tr, cl, graded>>

\* ------------------------------------------------------------------------
\* The classification of one fragment, for every fragment of at most
\* MaxLines lines after its first and every resemblance threshold drawn.
\* ------------------------------------------------------------------------

MaxLines == 4

RECURSIVE SeqsUpTo(_, _)
SeqsUpTo(S, n) ==
    IF n = 0 THEN {<<>>}
    ELSE LET shorter == SeqsUpTo(S, n - 1)
         IN  shorter \cup {Append(q, x) : q \in {r \in shorter : Len(r) = n - 1}, x \in S}

ClassifyLines ==
    { "< abc\n", "> abd\n", "context\n",
      "< processing time: 1.0s\n", "> processing time: 1.5s\n",
      "< x processing\n", "> time y\n" }

FirstLines == { "/* file : a/f */\n", "< abc\n" }

ClassifyFragments ==
    {""} \cup {h \o Concat(b) : h \in FirstLines, b \in SeqsUpTo(ClassifyLines, MaxLines)}

ClassifyLimits == {50, 100}

NoSf == [lines |-> <<>>, k |-> 0, pat |-> ""]
NoTr == [lines |-> <<>>, k |-> 0, cpt |-> 1, time1 |-> Zero, time2 |-> Zero, fname |-> ""]

InitClassify ==
    /\ G \in {[Globals0 EXCEPT !.LIMIT_ERROR_LINE = l] : l \in ClassifyLimits}
    /\ parts \in {<<f>> : f \in ClassifyFragments}
    /\ args = NoArgs
    /\ disk = EmptyDisk
    /\ handles = {}
    /\ stdout = <<>>
    /\ pc = "ls"
    /\ exc = ""
    /\ mn = NoMain
    /\ sf = NoSf
    /\ pf = NoPf
    /\ tr = NoTr
    /\ cl = NoCall
    /\ graded = <<>>

NextClassify ==
    \/ Main_Ls
    \/ Main_NextPath
    \/ PF_Open
    \/ PF_Iter
    \/ PF_Close
    \/ Main_PathsDone

SpecClassify == InitClassify /\ [][NextClassify]_vars

\* ------------------------------------------------------------------------
\* processTimeResults, one action per step: the two opens and the locals
\* (lines 135-141), one turn of the loop over the time stream (142-177),
\* the two closes (179-180).
\* ------------------------------------------------------------------------

\* Lines 147 and 152: the line gives no time.
NoTime(line) == Strip(line) = "" \/ extractFloat(line) = <<>>

\* Line 157 as it would read with `and` for `or`.
NullTime_Both(time1, time2) == time1.num = 0 /\ time2.num = 0

\* Line 157: one of the two times is 0.
NullTime(time1, time2) == time1.num = 0 \/ time2.num = 0

\* abs((time1 - time2)/time1) as [num, den], for time1 # 0.
RelDelta(time1, time2) ==
    [num |-> Abs(time1.num * time2.den - time2.num * time1.den),
     den |-> time2.den * Abs(time1.num)]

\* Lines 166-171 as they would read with the tests of 166 and 168 swapped
\* for strict ones.
GraduationTier_Strict(time1, time2) ==
    LET d == RelDelta(time1, time2)
        t == G.GRADUATION_TIME
    IN  IF d.num * 100 < t[1] * d.den THEN "ok"
        ELSE IF t[1] * d.den <= d.num * 100 /\ d.num * 100 < t[2] * d.den THEN "warn"
        ELSE IF t[2] * d.den <= d.num * 100 THEN "fail"
        ELSE "untiered"

\* Lines 166-171: the tier of a change under the two thresholds.
GraduationTier(time1, time2) ==
    LET d == RelDelta(time1, time2)
        t == G.GRADUATION_TIME
    IN  IF RatioLe(d, t[1]) THEN "ok"
        ELSE IF t[1] * d.den < d.num * 100 /\ RatioLe(d, t[2]) THEN "warn"
        ELSE IF t[2] * d.den < d.num * 100 THEN "fail"
        ELSE "untiered"

\* Line 172 as it would read with `>` for `>=`.
OverGap_Strict(time1, time2) ==
    RelDelta(time1, time2).num * 100 > G.OPT_TIME_GAP * RelDelta(time1, time2).den

\* Line 172: the change is at least the allowed gap.
OverGap(time1, time2) ==
    RelDelta(time1, time2).num * 100 >= G.OPT_TIME_GAP * RelDelta(time1, time2).den

\* Lines 157-175: the branch a cycle takes.
Grade(time1, time2) ==
    IF NullTime(time1, time2) THEN "null"
    ELSE IF G.OPT_WRITE_ALL_TIMES THEN "all"
    ELSE IF G.GRADUATION_TIME # None THEN GraduationTier(time1, time2)
    ELSE IF OverGap(time1, time2) THEN "gap"
    ELSE "skip"

\* The branches of lines 163-175, which evaluate (time1 - time2)/time1.
Divides(time1, time2) == ~NullTime(time1, time2) /\ ~G.OPT_WRITE_ALL_TIMES

TierColor(tier) ==
    CASE tier = "all"  -> OKBLUE
      [] tier = "ok"   -> OKGREEN
      [] tier = "warn" -> WARNING
      [] OTHER         -> FAILC

TimeLine(time1, time2) ==
    "old :  " \o Str(time1) \o "s   -->   new :  " \o Str(time2) \o "s\n"

\* What lines 159-175 write to the graded report for a cycle.
Entry(tier, fname, time1, time2) ==
    (IF tier \in {"all", "ok", "warn", "fail", "gap", "untiered"} /\ G.OPT_WRITE_FILENAME
     THEN fname ELSE "")
    \o (IF tier \in {"all", "ok", "warn", "fail", "gap"}
        THEN TierColor(tier) \o TimeLine(time1, time2) \o ENDC ELSE "")

NullTimeMessage(fname) == "ERROR : file : " \o fname \o " contains a null time"

TR_Open ==
    /\ pc = "time_open"
    /\ IF ~disk[outTestsTime].ex
       THEN /\ exc' = "FileNotFoundError"
            /\ pc' = "raised"
            /\ UNCHANGED <<disk, handles, tr>>
       ELSE /\ disk' = Truncate(disk, finalTime)
            /\ handles' = handles \cup {<<"r", outTestsTime>>, <<"w", finalTime>>}
            /\ tr' = [NoTr EXCEPT !.lines = ReadLines(disk[outTestsTime].data)]
            /\ pc' = "time_loop"
            /\ UNCHANGED exc
    /\ UNCHANGED <<G, args, parts, stdout, mn, sf, pf, cl, graded>>

\* The line the loop is at.
TrLine == tr.lines[tr.k + 1]

\* The times and the file name once lines 144-155 have read the line.
TrTime1 == IF tr.cpt = 2 /\ ~NoTime(TrLine) THEN extractFloat(TrLine)[1] ELSE tr.time1
TrTime2 == IF tr.cpt = 4 /\ ~NoTime(TrLine) THEN extractFloat(TrLine)[1] ELSE tr.time2
TrName  == IF tr.cpt = 1 THEN TrLine ELSE tr.fname

TR_Line ==
    /\ pc = "time_loop"
    /\ tr.k < Len(tr.lines)
    /\ IF tr.cpt = 5 /\ Divides(tr.time1, tr.time2) /\ tr.time1.num = 0
       THEN /\ exc' = "ZeroDivisionError"
            /\ pc' = "raised"
            /\ UNCHANGED <<disk, stdout, tr, graded>>
       ELSE /\ tr' = [tr EXCEPT !.k = @ + 1,
                                !.cpt = IF @ = 5 THEN 1 ELSE @ + 1,
                                !.time1 = TrTime1,
                                !.time2 = TrTime2,
                                !.fname = TrName]
            /\ disk' = IF tr.cpt = 5
                       THEN Write(disk, finalTime,
                                  Entry(Grade(tr.time1, tr.time2), tr.fname, tr.time1, tr.time2))
                       ELSE disk
            /\ stdout' = IF tr.cpt = 5 /\ Grade(tr.time1, tr.time2) = "null"
                         THEN Append(stdout, NullTimeMessage(tr.fname))
                         ELSE stdout
            /\ graded' = IF tr.cpt = 5
                         THEN Append(graded,
                                [cycle |-> tr.k \div 5,
                                 tier |-> Grade(tr.time1, tr.time2),
                                 time1 |-> tr.time1, time2 |-> tr.time2,
                                 fname |-> tr.fname,
                                 before |-> disk[finalTime].data,
                                 said |-> Len(stdout)])
                         ELSE graded
            /\ UNCHANGED <<pc, exc>>
    /\ UNCHANGED <<G, args, parts, handles, mn, sf, pf, cl>>

TR_Close ==
    /\ pc = "time_loop"
    /\ tr.k >= Len(tr.lines)
    /\ handles' = handles \ {<<"r", outTestsTime>>, <<"w", finalTime>>}
    /\ pc' = "display"
    /\ UNCHANGED <<G, args, disk, parts, stdout, exc, mn, sf, pf, tr, cl, graded>>

\* Line 363-364: main calls processTimeResults when times are wanted.
Main_Time ==
    /\ pc = "time"
    /\ pc' = IF G.OPT_TIME THEN "time_open" ELSE "display"
    /\ UNCHANGED <<G, args, disk, parts, handles, stdout, exc, mn, sf, pf, tr, cl, graded>>

\* ------------------------------------------------------------------------
\* main, lines 248-343: the options, the files of an earlier run, make, diff
\* ------------------------------------------------------------------------

\* The truth of an option's value in an `if`: None and 0 are false for a
\* number, None and "" for a string.
Truthy(opt) == opt # None /\ opt[1] # 0
TruthyStr(opt) == opt # None /\ opt[1] # ""

\* A float that counts whole hundredths, in hundredths.
Hundredths(f) == (f.num * 100) \div f.den

\* colorPrint(color, text)
colorPrint(out, color, text) == Append(out, color \o text \o ENDC)

\* Line 257: the two ways of grading are given together.
Combined == Truthy(args.time_gap) /\ TruthyStr(args.time_graduation)

\* Lines 251-256: the globals set before the test of line 257.
GlobalsBefore ==
    [G EXCEPT !.LIMIT_ERROR_LINE = IF Truthy(args.limit_error_line)
                                   THEN args.limit_error_line[1] ELSE @,
              !.OPT_WRITE_FILENAME = IF args.without_filename THEN FALSE ELSE @,
              !.OPT_WRITE_ALL_TIMES = IF args.show_all_times THEN TRUE ELSE @]

\* Lines 260-269: the globals set between line 257 and the thresholds.
GlobalsMiddle ==
    [GlobalsBefore EXCEPT
        !.OPT_TIME_GAP = IF Truthy(args.time_gap) THEN args.time_gap[1] ELSE @,
        !.OPT_TIME = IF args.without_times THEN FALSE ELSE @,
        !.EXCEPT_DIR = IF TruthyStr(args.except_dir) THEN Split(args.except_dir[1], ",") ELSE @,
        !.DISPLAY_TIMES = IF args.display_times THEN TRUE ELSE @,
        !.DISPLAY_ERRORS = IF args.display_errors THEN TRUE ELSE @]

\* Line 271: args.time_graduation.split(",")
GraduationList == Split(args.time_graduation[1], ",")

\* Lines 270-287: the thresholds and the globals set after them.
GlobalsAfter ==
    [GlobalsMiddle EXCEPT
        !.GRADUATION_TIME = IF TruthyStr(args.time_graduation)
                            THEN <<Hundredths(Float(GraduationList[1])),
                                   Hundredths(Float(GraduationList[2]))>>
                            ELSE @,
        !.NO_DUPLICATE = IF args.no_duplicate THEN TRUE ELSE @,
        !.CASE_DIR = IF args.fast THEN "case-studies/fast-tests/" ELSE @,
        !.CASE_REG_DIR = IF args.fast THEN "case-studies-regression/fast-tests/" ELSE @,
        !.OPT_DFF = IF args.delete_final_files THEN TRUE ELSE @,
        !.OPT_YES = IF args.accept_recommanded_deletions THEN TRUE ELSE @,
        !.OPT_NOD = IF args.no_delete THEN TRUE ELSE @,
        !.OPT_NOM = IF args.no_make THEN TRUE ELSE @,
        !.OPT_NOKEEP = IF args.no_git_keep THEN TRUE ELSE @]

\* Lines 250-287.
Main_Args ==
    /\ pc = "args"
    /\ IF Combined
       THEN /\ G' = GlobalsBefore
            /\ stdout' = colorPrint(stdout, FAILC,
                            "Do not combine time graduation with time gap argument.")
            /\ exc' = "SystemExit"
            /\ pc' = "raised"
       ELSE IF TruthyStr(args.time_graduation) /\ Len(GraduationList) < 2
       THEN /\ G' = GlobalsMiddle
            /\ exc' = IF IsFloat(GraduationList[1]) THEN "IndexError" ELSE "ValueError"
            /\ pc' = "raised"
            /\ UNCHANGED stdout
       ELSE IF /\ TruthyStr(args.time_graduation)
               /\ ~(IsFloat(GraduationList[1]) /\ IsFloat(GraduationList[2]))
       THEN /\ G' = GlobalsMiddle
            /\ exc' = "ValueError"
            /\ pc' = "raised"
            /\ UNCHANGED stdout
       ELSE /\ G' = GlobalsAfter
            /\ pc' = "init"
            /\ UNCHANGED <<stdout, exc>>
    /\ UNCHANGED <<args, disk, parts, handles, mn, sf, pf, tr, cl, graded>>

Range(seq) == {seq[i] : i \in 1..Len(seq)}

\* Line 300.
filesList == <<outTestsTime, outTestsErrors, pathTmp, filename, finalTime>>

\* What queryYesNo writes for a file, when the answer is a valid one.
Question(fn) ==
    "File " \o fn \o " already exists. It may compromise your results. "
    \o "Do you want to delete it ?" \o " [Y/n] "

\* Lines 301-305 from the i-th file on: the disk and the output, when the
\* user's answer is yes for the files of `yes`.
RECURSIVE CheckFiles(_, _, _, _)
CheckFiles(d, out, i, yes) ==
    IF i > Len(filesList) THEN [disk |-> d, out |-> out]
    ELSE LET fn == filesList[i]
         IN  IF ~d[fn].ex THEN CheckFiles(d, out, i + 1, yes)
             ELSE IF G.OPT_YES THEN CheckFiles(Remove(d, fn), out, i + 1, yes)
             ELSE CheckFiles(IF fn \in yes THEN Remove(d, fn) ELSE d,
                             Append(out, Question(fn)), i + 1, yes)

\* Lines 291-305.
Main_Init ==
    /\ pc = "init"
    /\ \E yes \in SUBSET {fn \in Range(filesList) : disk[fn].ex /\ ~G.OPT_YES} :
          LET r == CheckFiles([disk EXCEPT ![dirtests].ex = TRUE],
                              colorPrint(stdout, HEADER, "** Tests for Tamarin Prover **"),
                              1, yes)
          IN  /\ disk' = r.disk
              /\ stdout' = r.out
    /\ pc' = "make"
    /\ UNCHANGED <<G, args, parts, handles, exc, mn, sf, pf, tr, cl, graded>>

\* The return codes make may give.
MakeCodes == {0, 2}

\* Lines 311-316: only a failing make of the fast tests ends the run.
Main_Make ==
    /\ pc = "make"
    /\ \E rc \in MakeCodes :
          IF ~G.OPT_NOM /\ args.fast /\ rc # 0
          THEN /\ stdout' = colorPrint(stdout, FAILC,
                               "Make failed with return code " \o NatStr(rc))
               /\ exc' = "SystemExit"
               /\ pc' = "raised"
          ELSE /\ pc' = "exclude"
               /\ UNCHANGED <<stdout, exc>>
    /\ UNCHANGED <<G, args, disk, parts, handles, mn, sf, pf, tr, cl, graded>>

Member(x, seq) == \E i \in 1..Len(seq) : seq[i] = x

AppendNew(seq, x) == IF Member(x, seq) THEN seq ELSE Append(seq, x)

\* Lines 329-331: one option of diff per directory of EXCEPT_DIR.
RECURSIVE Excluded(_)
Excluded(dirs) ==
    IF dirs = <<>> THEN ""
    ELSE " '--exclude=" \o Head(dirs) \o "' " \o Excluded(Tail(dirs))

\* Lines 328-338: `in EXCEPT_DIR` raises TypeError when EXCEPT_DIR is None.
Main_Exclude ==
    /\ pc = "exclude"
    /\ LET given == IF TruthyStr(args.except_dir) THEN Excluded(G.EXCEPT_DIR) ELSE ""
       IN  IF args.fast
           THEN /\ mn' = [mn EXCEPT !.excluded = given]
                /\ pc' = "diff"
                /\ UNCHANGED <<G, exc>>
           ELSE IF G.EXCEPT_DIR = None
           THEN /\ mn' = [mn EXCEPT !.excluded =
                            given \o " '--exclude=case-studies/fast-tests/' "
                                  \o " '--exclude=case-studies-regression/fast-tests/' "]
                /\ exc' = "TypeError"
                /\ pc' = "raised"
                /\ UNCHANGED G
           ELSE /\ mn' = [mn EXCEPT !.excluded =
                            given \o " '--exclude=case-studies/fast-tests/' "
                                  \o " '--exclude=case-studies-regression/fast-tests/' "]
                /\ G' = [G EXCEPT !.EXCEPT_DIR =
                            AppendNew(AppendNew(@, "case-studies/fast-tests/"),
                                      "case-studies-regression/fast-tests/")]
                /\ pc' = "diff"
                /\ UNCHANGED exc
    /\ UNCHANGED <<args, disk, parts, handles, stdout, sf, pf, tr, cl, graded>>

\* The return codes diff may give.
DiffCodes == {0, 1, 2}

\* What diff may write when the trees differ.
DiffOutputs ==
    { "diff -r a/f b/f\n< abc\n> abd\n",
      "diff -r a/f b/f\n< processing time: 1.0s\n> processing time: 1.3s\n",
      "diff -r a/f b/f\n< abc\n> abd\n< processing time: 1.0s\n> processing time: 1.3s\n",
      "Only in a: h\n" }

\* Lines 340-343: the shell writes diff's output to the transcript; the
\* colorPrint of line 342 is called with three arguments.
Main_Diff ==
    /\ pc = "diff"
    /\ \E rc \in DiffCodes :
       \E out \in IF rc = 1 THEN DiffOutputs ELSE {""} :
          /\ disk' = [disk EXCEPT ![filename] = [ex |-> TRUE, data |-> out]]
          /\ IF rc = 0 \/ rc > 1
             THEN exc' = "TypeError" /\ pc' = "raised"
             ELSE pc' = "split" /\ UNCHANGED exc
    /\ UNCHANGED <<G, args, parts, handles, stdout, mn, sf, pf, tr, cl, graded>>

\* ------------------------------------------------------------------------
\* uniqLines
\* ------------------------------------------------------------------------

\* s.replace(old, new)
RECURSIVE Join(_, _)
Join(items, sep) ==
    IF Len(items) = 1 THEN items[1]
    ELSE items[1] \o sep \o Join(Tail(items), sep)

Replace(s, old, new) == Join(Split(s, old), new)

\* Lines 187 and 191-192: the line without the unwanted characters.
Unwanted(line) ==
    Replace(Replace(Replace(Replace(line, ESC, ""), "[0m", ""), "[95m", ""), "[91m3", "")

\* Lines 189-195 as they would be with `outfile.write(tmpline)`.
RECURSIVE Uniq_WritesStripped(_, _)
Uniq_WritesStripped(lines, seen) ==
    IF lines = <<>> THEN ""
    ELSE IF Unwanted(Head(lines)) \in seen THEN Uniq_WritesStripped(Tail(lines), seen)
    ELSE Unwanted(Head(lines))
            \o Uniq_WritesStripped(Tail(lines), seen \cup {Unwanted(Head(lines))})

\* Lines 189-195: the lines written, of those left, given the lines seen.
RECURSIVE Uniq(_, _)
Uniq(lines, seen) ==
    IF lines = <<>> THEN ""
    ELSE IF Unwanted(Head(lines)) \in seen THEN Uniq(Tail(lines), seen)
    ELSE Head(lines) \o Uniq(Tail(lines), seen \cup {Unwanted(Head(lines))})

\* uniqLines as it would be if its loop passed over the first line read.
uniqLines_SkipsFirst(d, infilename, outfilename) ==
    LET lines == ReadLines(d[infilename].data)
    IN  [d EXCEPT ![outfilename] =
            [ex |-> TRUE,
             data |-> IF lines = <<>> THEN "" ELSE Uniq(Tail(lines), {})]]

\* The disk after uniqLines(infilename, outfilename).
uniqLines(d, infilename, outfilename) ==
    [d EXCEPT ![outfilename] =
        [ex |-> TRUE, data |-> Uniq(ReadLines(d[infilename].data), {})]]

\* uniqLines(finalTime, "times.tmp"), as main calls it at line 374; the file
\* it reads is opened at line 189 and not closed.
Uniq_First ==
    /\ pc = "uniq"
    /\ disk[finalTime].ex
    /\ disk' = uniqLines(disk, finalTime, timesTmp)
    /\ handles' = handles \cup {<<"r", finalTime>>}
    /\ pc' = "uniq_again"
    /\ UNCHANGED <<G, args, parts, stdout, exc, mn, sf, pf, tr, cl, graded>>

\* uniqLines on the file the first call wrote, into another file.
Uniq_Again ==
    /\ pc = "uniq_again"
    /\ disk' = uniqLines(disk, timesTmp, pathTmp)
    /\ handles' = handles \cup {<<"r", timesTmp>>}
    /\ pc' = "uniq_done"
    /\ UNCHANGED <<G, args, parts, stdout, exc, mn, sf, pf, tr, cl, graded>>

\* ------------------------------------------------------------------------
\* main, lines 370-421: the displays, the cleaning and the verdict
\* ------------------------------------------------------------------------

\* cat name: the text of the file, nothing when there is no such file.
Cat(d, name) == IF d[name].ex THEN <<d[name].data>> ELSE <<>>

\* Lines 370-381.
Main_Display ==
    /\ pc = "display"
    /\ LET times == G.DISPLAY_TIMES /\ G.OPT_TIME
           uniq == times /\ G.NO_DUPLICATE
       IN  IF uniq /\ ~disk[finalTime].ex
           THEN /\ disk' = Truncate(disk, timesTmp)
                /\ handles' = handles \cup {<<"w", timesTmp>>}
                /\ exc' = "FileNotFoundError"
                /\ pc' = "raised"
                /\ UNCHANGED stdout
           ELSE /\ disk' = IF uniq THEN Remove(uniqLines(disk, finalTime, timesTmp), timesTmp)
                           ELSE disk
                /\ handles' = IF uniq THEN handles \cup {<<"r", finalTime>>} ELSE handles
                /\ stdout' = stdout
                     \o (IF uniq THEN Cat(uniqLines(disk, finalTime, timesTmp), timesTmp)
                         ELSE IF times THEN Cat(disk, finalTime) ELSE <<>>)
                     \o (IF G.DISPLAY_ERRORS THEN Cat(disk, outTestsErrors) ELSE <<>>)
                /\ pc' = "keep"
                /\ UNCHANGED exc
    /\ UNCHANGED <<G, args, parts, mn, sf, pf, tr, cl, graded>>

\* Lines 385-396: tests/ is emptied, or removed.
Main_Keep ==
    /\ pc = "keep"
    /\ parts' = <<>>
    /\ disk' = IF G.OPT_NOKEEP THEN disk ELSE Remove(disk, dirtests)
    /\ handles' = IF G.OPT_NOKEEP THEN handles \cup {<<"r", directoriesTmp>>} ELSE handles
    /\ pc' = "clean"
    /\ UNCHANGED <<G, args, stdout, exc, mn, sf, pf, tr, cl, graded>>

\* Lines 400-404.
Main_Clean ==
    /\ pc = "clean"
    /\ disk' = IF G.OPT_NOD THEN disk
               ELSE Remove(Remove(IF G.OPT_TIME THEN Remove(disk, outTestsTime) ELSE disk,
                                  pathTmp), filename)
    /\ pc' = "verdict"
    /\ UNCHANGED <<G, args, parts, handles, stdout, exc, mn, sf, pf, tr, cl, graded>>

\* Lines 407-421.
Main_Verdict ==
    /\ pc = "verdict"
    /\ IF ~disk[outTestsErrors].ex
       THEN /\ exc' = "FileNotFoundError"
            /\ pc' = "raised"
            /\ UNCHANGED <<disk, handles, stdout, mn>>
       ELSE LET nbrLines == Len(ReadLines(disk[outTestsErrors].data))
                final == G.OPT_DFF /\ G.OPT_TIME /\ ~G.OPT_NOD
            IN  /\ handles' = handles \cup {<<"r", outTestsErrors>>}
                /\ IF nbrLines = 0
                   THEN /\ stdout' = colorPrint(stdout, BOLD, "All tests passed !")
                        /\ disk' = LET d == IF G.OPT_NOD THEN disk
                                            ELSE Remove(disk, outTestsErrors)
                                   IN  IF final THEN Remove(d, finalTime) ELSE d
                        /\ mn' = [mn EXCEPT !.result = <<SUCCESS>>]
                   ELSE /\ stdout' = Append(stdout, "Tests failed with "
                                             \o NatStr(nbrLines) \o " lines")
                        /\ disk' = LET d == IF G.OPT_DFF /\ ~G.OPT_NOD
                                            THEN Remove(disk, outTestsErrors) ELSE disk
                                   IN  IF final THEN Remove(d, finalTime) ELSE d
                        /\ mn' = [mn EXCEPT !.result = <<FAIL>>]
                /\ pc' = "done"
                /\ UNCHANGED exc
    /\ UNCHANGED <<G, args, parts, sf, pf, tr, cl, graded>>

\* ------------------------------------------------------------------------
\* The grading of the pairs of up to MaxFrags fragments, each of one pair,
\* under each way of grading.
\* ------------------------------------------------------------------------

MaxFrags == 2

TimeFragments ==
    { "/* file : f1 */\n< processing time: 1.0s\n> processing time: 1.3s\n",
      "/* file : f2 */\n< processing time: 1.0s\n> processing time: 1.25s\n",
      "/* file : f3 */\n< processing time: 1.0s\n> processing time: 2.0s\n",
      "/* file : f4 */\n< processing time: 0.0s\n> processing time: 1.3s\n",
      "/* file : f5 */\n< processing time: 1.0s\n> processing time: 0.0s\n",
      "/* file : f6 */\n< foo\n> processing time: 1.3s\n",
      "/* file : f7 */\n< processing time: 1.0s\n> bar\n",
      "/* file : f8 */\n< processing time: 1.0s\n> processing time: 1.5s\n" }

TimeGlobals ==
    { [Globals0 EXCEPT !.OPT_WRITE_ALL_TIMES = TRUE],
      [Globals0 EXCEPT !.GRADUATION_TIME = <<25, 50>>],
      Globals0,
      [Globals0 EXCEPT !.OPT_TIME_GAP = 50],
      [Globals0 EXCEPT !.OPT_WRITE_FILENAME = FALSE] }

InitTime ==
    /\ G \in TimeGlobals
    /\ parts \in SeqsUpTo(TimeFragments, MaxFrags) \ {<<>>}
    /\ args = NoArgs
    /\ disk = EmptyDisk
    /\ handles = {}
    /\ stdout = <<>>
    /\ pc = "ls"
    /\ exc = ""
    /\ mn = NoMain
    /\ sf = NoSf
    /\ pf = NoPf
    /\ tr = NoTr
    /\ cl = NoCall
    /\ graded = <<>>

NextTime ==
    \/ Main_Ls
    \/ Main_NextPath
    \/ PF_Open
    \/ PF_Iter
    \/ PF_Close
    \/ Main_PathsDone
    \/ Main_Time
    \/ TR_Open
    \/ TR_Line
    \/ TR_Close

SpecTime == InitTime /\ [][NextTime]_vars

\* ------------------------------------------------------------------------
\* Classification: what is stated of processFile and compareLines
\* ------------------------------------------------------------------------

Marker == "processing time"

\* The number of records of a stream: each record starts with one HEADER.
Records(name) == Len(Split(disk[name].data, HEADER)) - 1

\* The lines of the fragment after its first line, those that start with
\* "<" or ">" only.
Marked(frag) ==
    LET lines == ReadLines(frag)
    IN  IF lines = <<>> THEN <<>>
        ELSE SelectSeq(Tail(lines), LAMBDA l : At(l, 0) \in {"<", ">"})

\* The places of the adjacent pairs: a "<" line with a ">" line next.
AdjacentPairs(b) ==
    {i \in 1..(Len(b) - 1) : At(b[i], 0) = "<" /\ At(b[i + 1], 0) = ">"}

HasMarker(b, i) == Contains(b[i], Marker) \/ Contains(b[i + 1], Marker)

Resembles(b, i) ==
    LET r == similar(b[i], b[i + 1])
    IN  r.num * 100 > G.LIMIT_ERROR_LINE * r.den

\* processFile was called on the fragment and is over: it has returned to
\* the loop of main, or raised.
PF_Over == pf.path # "" /\ pc \in {"paths", "raised"}

\* C1, as stated: once processFile is over, the two streams together hold
\* exactly one record per adjacent "<"/">" pair of the fragment, whatever
\* the resemblance threshold.
C1_EveryPairRecorded ==
    PF_Over =>
        Records(outTestsErrors) + Records(outTestsTime)
            = Cardinality(AdjacentPairs(Marked(parts[1])))

\* C1, amended: once processFile is over, the time stream holds one record
\* per adjacent pair (of the lines after the first) with the marker in one of
\* its lines, the error stream one per adjacent pair without the marker whose
\* similarity is at most LIMIT_ERROR_LINE, and a pair without the marker and
\* above the threshold has no record; with the threshold at 1 no pair is
\* dropped.
C1_PairsRouted ==
    PF_Over =>
        LET b == Marked(parts[1])
            P == AdjacentPairs(b)
        IN  /\ Records(outTestsTime) = Cardinality({i \in P : HasMarker(b, i)})
            /\ Records(outTestsErrors)
                 = Cardinality({i \in P : ~HasMarker(b, i) /\ ~Resembles(b, i)})
            /\ G.LIMIT_ERROR_LINE = 100 =>
                 Records(outTestsErrors) + Records(outTestsTime) = Cardinality(P)

\* A fragment with two adjacent pairs, one recorded as a time pair and one
\* dropped for its resemblance, has been processed.
C1_Witness ==
    /\ PF_Over
    /\ LET b == Marked(parts[1])
           P == AdjacentPairs(b)
       IN  /\ Cardinality(P) = 2
           /\ \E i \in P : HasMarker(b, i)
           /\ \E i \in P : ~HasMarker(b, i) /\ Resembles(b, i)

\* The last retained line of the fragment starts with "<".
TrailingRemoved ==
    LET b == Marked(parts[1])
    IN  b # <<>> /\ At(b[Len(b)], 0) = "<"

\* C2, as stated: processFile on a fragment whose last retained line starts
\* with "<" raises no exception and, once over, has closed the fragment.
C2_TrailingRemovedCompletes ==
    TrailingRemoved =>
        /\ exc = ""
        /\ PF_Over => <<"r", pf.path>> \notin handles

\* C9: when compareLines returns to the loop of processFile the time stream
\* has grown iff one of the two lines contains the marker, the error stream
\* has grown iff neither does and their similarity is at most
\* LIMIT_ERROR_LINE, and never both.
C9_Routing ==
    (cl.n > 0 /\ pc = "pf_loop") =>
        LET timeGrew == disk[outTestsTime].data # cl.time0
            errGrew  == disk[outTestsErrors].data # cl.err0
            marker   == Contains(cl.line1, Marker) \/ Contains(cl.line2, Marker)
            r        == similar(cl.line1, cl.line2)
            below    == r.num * 100 <= G.LIMIT_ERROR_LINE * r.den
        IN  /\ timeGrew <=> marker
            /\ errGrew <=> (~marker /\ below)
            /\ ~(timeGrew /\ errGrew)

\* compareLines was called on a pair whose first line ends with "processing"
\* and whose second goes on with "time", and the pair went to the error
\* stream alone.
C9_Witness ==
    /\ cl.n > 0
    /\ cl.line1 = "< x processing\n"
    /\ cl.line2 = "> time y\n"
    /\ disk[outTestsErrors].data # cl.err0
    /\ disk[outTestsTime].data = cl.time0

\* ------------------------------------------------------------------------
\* Grading: what is stated of processTimeResults
\* ------------------------------------------------------------------------

\* Line p (1..5) of cycle c (0, 1, ...) of the time stream as it was read.
CycleLine(c, p) == tr.lines[5 * c + p]

\* The times the old-time line and the new-time line of cycle c give.
OwnOld(c) == extractFloat(CycleLine(c, 2))
OwnNew(c) == extractFloat(CycleLine(c, 4))

\* Cycle c has an old and a new time of its own, neither of them 0.
OwnTimes(c) ==
    /\ OwnOld(c) # <<>> /\ OwnOld(c)[1].num # 0
    /\ OwnNew(c) # <<>> /\ OwnNew(c)[1].num # 0

\* What the i-th graded cycle added to the graded report.
Wrote(i) ==
    LET after == IF i < Len(graded) THEN graded[i + 1].before ELSE disk[finalTime].data
    IN  Slice(after, Len(graded[i].before), Len(after))

\* What the i-th graded cycle printed.
Printed(i) ==
    SubSeq(stdout, graded[i].said + 1,
           IF i < Len(graded) THEN graded[i + 1].said ELSE Len(stdout))

Count(s, p) == Len(Split(s, p)) - 1

\* processTimeResults is over: it has returned, or raised.
TR_Over == pc \in {"display", "raised"}

\* |old - new| / |old| of cycle c against h hundredths: -1 below, 0 equal,
\* 1 above.
OwnDeltaVs(c, h) ==
    LET o == OwnOld(c)[1]
        n == OwnNew(c)[1]
        lhs == Abs(o.num * n.den - n.num * o.den) * 100
        rhs == h * n.den * Abs(o.num)
    IN  IF lhs < rhs THEN -1 ELSE IF lhs = rhs THEN 0 ELSE 1

\* C3, as stated: a cycle whose old-time or new-time line gives no time
\* prints the null-time diagnostic and adds nothing to the graded report,
\* whatever the cycles before it held.
C3_NoTimeIsNullTime ==
    \A i \in DOMAIN graded :
        (OwnOld(graded[i].cycle) = <<>> \/ OwnNew(graded[i].cycle) = <<>>) =>
            /\ Printed(i) # <<>>
            /\ Wrote(i) = ""

\* C4: no division by a zero time is evaluated; once processTimeResults is
\* over, every cycle whose own old or new time is 0 has printed the null-time
\* diagnostic and added nothing to the report; and the loop went on to the
\* end of the stream, grading every cycle.
C4_NoDivisionByZero ==
    /\ exc # "ZeroDivisionError"
    /\ TR_Over =>
          \A i \in DOMAIN graded :
             LET c == graded[i].cycle
             IN  ((OwnOld(c) # <<>> /\ OwnOld(c)[1].num = 0)
                     \/ (OwnNew(c) # <<>> /\ OwnNew(c)[1].num = 0)) =>
                   /\ Printed(i) = <<NullTimeMessage(CycleLine(c, 1))>>
                   /\ Wrote(i) = ""
    /\ pc = "display" => Len(graded) = Len(tr.lines) \div 5

\* A cycle with a zero old time was met under the graduated or the gap mode,
\* and a later cycle was written to the report.
C4_Witness ==
    /\ ~G.OPT_WRITE_ALL_TIMES
    /\ \E i, j \in DOMAIN graded :
          /\ i < j
          /\ OwnOld(graded[i].cycle) # <<>>
          /\ OwnOld(graded[i].cycle)[1].num = 0
          /\ Wrote(j) # ""

\* The fragments of the run are one pair each: header, old line, new line.
PairHeader(k) == ReadLines(parts[k])[1]
PairOld(k)    == ReadLines(parts[k])[2]
PairNew(k)    == ReadLines(parts[k])[3]

\* C5, as stated: once the time stream is graded, the cycle of the k-th pair
\* has that pair's header at position 1, its old line at position 2 and its
\* new line at position 4, and every entry written for cycle k shows the
\* times of the k-th pair's own old and new lines.
C5_CyclePerPair ==
    pc = "display" =>
        /\ \A k \in 1..Len(parts) :
              /\ Contains(CycleLine(k - 1, 1), "**" \o Strip(PairHeader(k)) \o "**")
              /\ Contains(CycleLine(k - 1, 2), PairOld(k))
              /\ Contains(CycleLine(k - 1, 4), PairNew(k))
        /\ \A i \in DOMAIN graded :
              Wrote(i) # "" =>
                 /\ extractFloat(PairOld(i)) # <<>>
                 /\ extractFloat(PairNew(i)) # <<>>
                 /\ Contains(Wrote(i), TimeLine(extractFloat(PairOld(i))[1],
                                                extractFloat(PairNew(i))[1]))

GapMode == ~G.OPT_WRITE_ALL_TIMES /\ G.GRADUATION_TIME = None

\* C6: in gap mode, once processTimeResults is over, a cycle with own
\* non-zero times has added exactly one entry,
\* tagged as a failure, when |(old - new)/old| >= OPT_TIME_GAP, and nothing
\* otherwise.
C6_GapMode ==
    (GapMode /\ TR_Over) =>
        \A i \in DOMAIN graded :
            LET c == graded[i].cycle
            IN  OwnTimes(c) =>
                  IF OwnDeltaVs(c, G.OPT_TIME_GAP) >= 0
                  THEN Wrote(i) = (IF G.OPT_WRITE_FILENAME THEN CycleLine(c, 1) ELSE "")
                                  \o FAILC \o TimeLine(OwnOld(c)[1], OwnNew(c)[1]) \o ENDC
                  ELSE Wrote(i) = ""

\* Old 1.0 and new 1.3 were graded with the gap at 0.2 and written as a failure.
C6_Witness ==
    /\ GapMode
    /\ G.OPT_TIME_GAP = 20
    /\ \E i \in DOMAIN graded :
          /\ OwnTimes(graded[i].cycle)
          /\ Str(OwnOld(graded[i].cycle)[1]) = "1.0"
          /\ Str(OwnNew(graded[i].cycle)[1]) = "1.3"
          /\ Count(Wrote(i), FAILC) = 1

GraduatedMode ==
    /\ ~G.OPT_WRITE_ALL_TIMES
    /\ G.GRADUATION_TIME # None
    /\ G.GRADUATION_TIME[1] <= G.GRADUATION_TIME[2]

\* The tier an entry is tagged with, read from the colour its time line
\* starts with: 1 ok, 2 warn, 3 fail; 0 when it has no time line or several.
TierOf(text) ==
    IF Count(text, "old :") # 1 THEN 0
    ELSE IF Contains(text, OKGREEN \o "old :") THEN 1
    ELSE IF Contains(text, WARNING \o "old :") THEN 2
    ELSE IF Contains(text, FAILC \o "old :") THEN 3
    ELSE 0

\* C7: in graduated mode with t1 <= t2, once processTimeResults is over, a
\* cycle with own non-zero times has exactly one tier: ok when |delta| <= t1, warn when t1 < |delta| <= t2,
\* fail when |delta| > t2; and of two cycles with the same old time the one
\* whose new time is further from it has no lower a tier.
C7_GraduatedTiers ==
    (GraduatedMode /\ TR_Over) =>
        /\ \A i \in DOMAIN graded :
              LET c == graded[i].cycle
              IN  OwnTimes(c) =>
                    /\ Contains(Wrote(i), TimeLine(OwnOld(c)[1], OwnNew(c)[1]))
                    /\ TierOf(Wrote(i)) =
                          (IF OwnDeltaVs(c, G.GRADUATION_TIME[1]) <= 0 THEN 1
                           ELSE IF OwnDeltaVs(c, G.GRADUATION_TIME[2]) <= 0 THEN 2
                           ELSE 3)
        /\ \A i, j \in DOMAIN graded :
              LET ci == graded[i].cycle
                  cj == graded[j].cycle
                  oi == OwnOld(ci)[1]
                  ni == OwnNew(ci)[1]
                  nj == OwnNew(cj)[1]
              IN  (/\ OwnTimes(ci) /\ OwnTimes(cj)
                   /\ OwnOld(ci) = OwnOld(cj)
                   /\ Abs(ni.num * oi.den - oi.num * ni.den) * nj.den
                        <= Abs(nj.num * oi.den - oi.num * nj.den) * ni.den)
                  => TierOf(Wrote(i)) <= TierOf(Wrote(j))

\* Two cycles with the same old time were graded, one on a threshold and
\* tagged ok, the other beyond both thresholds and tagged fail.
C7_Witness ==
    /\ GraduatedMode
    /\ \E i, j \in DOMAIN graded :
          /\ OwnTimes(graded[i].cycle) /\ OwnTimes(graded[j].cycle)
          /\ OwnOld(graded[i].cycle) = OwnOld(graded[j].cycle)
          /\ OwnDeltaVs(graded[i].cycle, G.GRADUATION_TIME[1]) = 0
          /\ TierOf(Wrote(i)) = 1
          /\ TierOf(Wrote(j)) = 3

\* ------------------------------------------------------------------------
\* The segmentation of every transcript of at most MaxTranscript lines,
\* with and without an excluded directory.
\* ------------------------------------------------------------------------

MaxTranscript == 3

TranscriptLines ==
    { "diff -r a/f b/f\n", "diff -r '--exclude=x' a/g b/g\n",
      "< abc\n", "Only in a: h\n", "> x diff -r a/i b/i\n" }

Transcripts == {Concat(t) : t \in SeqsUpTo(TranscriptLines, MaxTranscript)}

InitSplit ==
    /\ G \in {Globals0, [Globals0 EXCEPT !.EXCEPT_DIR = <<"x">>]}
    /\ disk \in {[EmptyDisk EXCEPT ![filename] = [ex |-> TRUE, data |-> t]] : t \in Transcripts}
    /\ parts = <<>>
    /\ args = NoArgs
    /\ handles = {}
    /\ stdout = <<>>
    /\ pc = "split"
    /\ exc = ""
    /\ mn = NoMain
    /\ sf = NoSf
    /\ pf = NoPf
    /\ tr = NoTr
    /\ cl = NoCall
    /\ graded = <<>>

NextSplit ==
    \/ Split_Open
    \/ Split_Line
    \/ Split_Close

SpecSplit == InitSplit /\ [][NextSplit]_vars

\* ------------------------------------------------------------------------
\* Segmentation: what is stated of splitFile
\* ------------------------------------------------------------------------

\* The number of boundary markers of the transcript.
Markers == Count(disk[filename].data, SplitPattern)

\* The transcript has text before its first marker.
LeadingContent == Find(disk[filename].data, SplitPattern) > 0

\* C8, as stated: once splitFile is over there are k + 1 fragments when the
\* transcript has content before its first marker (or no marker), and k
\* fragments when its first marker comes before any other content.
C8_FragmentCount ==
    pc = "ls" =>
        Len(parts) = IF Markers = 0 \/ LeadingContent THEN Markers + 1 ELSE Markers

\* ------------------------------------------------------------------------
\* A whole run of main, for a choice of command lines, with and without the
\* error stream of an earlier run in the working directory.
\* ------------------------------------------------------------------------

\* Options that do not bear on each other, given together.
OptionSets ==
    { NoArgs,
      [NoArgs EXCEPT !.display_times = TRUE, !.display_errors = TRUE, !.no_duplicate = TRUE],
      [NoArgs EXCEPT !.no_delete = TRUE, !.no_git_keep = TRUE],
      [NoArgs EXCEPT !.delete_final_files = TRUE, !.accept_recommanded_deletions = TRUE],
      [NoArgs EXCEPT !.without_times = TRUE, !.no_make = TRUE],
      [NoArgs EXCEPT !.show_all_times = TRUE, !.without_filename = TRUE,
                     !.limit_error_line = <<50>>] }

CommandLines ==
    { [o EXCEPT !.time_gap = t, !.time_graduation = g, !.fast = f, !.except_dir = e] :
        o \in OptionSets, t \in {None, <<0>>, <<50>>},
        g \in {None, <<"0.25,0.5">>, <<"0.3">>}, f \in BOOLEAN, e \in {None, <<"x">>} }

InitMain ==
    /\ args \in CommandLines
    /\ G = Globals0
    /\ disk \in {EmptyDisk,
                 [EmptyDisk EXCEPT ![outTestsErrors] = [ex |-> TRUE, data |-> "old\n"]]}
    /\ parts = <<>>
    /\ handles = {}
    /\ stdout = <<>>
    /\ pc = "args"
    /\ exc = ""
    /\ mn = NoMain
    /\ sf = NoSf
    /\ pf = NoPf
    /\ tr = NoTr
    /\ cl = NoCall
    /\ graded = <<>>

NextMain ==
    \/ Main_Args
    \/ Main_Init
    \/ Main_Make
    \/ Main_Exclude
    \/ Main_Diff
    \/ Split_Open
    \/ Split_Line
    \/ Split_Close
    \/ Main_Ls
    \/ Main_NextPath
    \/ PF_Open
    \/ PF_Iter
    \/ PF_Close
    \/ Main_PathsDone
    \/ Main_Time
    \/ TR_Open
    \/ TR_Line
    \/ TR_Close
    \/ Main_Display
    \/ Main_Keep
    \/ Main_Clean
    \/ Main_Verdict

SpecMain == InitMain /\ [][NextMain]_vars

\* ------------------------------------------------------------------------
\* The command line: what is stated of main
\* ------------------------------------------------------------------------

\* Both the gap and the graduation thresholds are on the command line.
BothSupplied == args.time_gap # None /\ args.time_graduation # None

\* C10, as stated: a run given both the gap and the graduation thresholds
\* goes no further than its options: it ends there with the error printed,
\* and nothing else printed, no file made, opened or removed.
C10_GapExcludesGraduation ==
    BothSupplied =>
        \/ pc = "args"
        \/ /\ pc = "raised"
           /\ exc = "SystemExit"
           /\ stdout = <<FAILC \o "Do not combine time graduation with time gap argument."
                                \o ENDC>>
           /\ parts = <<>>
           /\ handles = {}
           /\ \A fn \in FileNames \ {outTestsErrors} : ~disk[fn].ex

\* ------------------------------------------------------------------------
\* Segmentation: where the lines of the transcript go
\* ------------------------------------------------------------------------

\* The lines of the transcript, as they are in the file.
TranscriptOf == ReadLines(disk[filename].data)

\* The number of markers in the lines of the transcript before its j-th.
MarkersBefore(j) == Count(Concat(SubSeq(TranscriptOf, 1, j - 1)), SplitPattern)

\* The lines without a marker that follow exactly n - 1 markers, in order.
PlainLinesOf(n) ==
    LET t == TranscriptOf
        idx == SelectSeq([j \in 1..Len(t) |-> j],
                         LAMBDA j : ~Contains(t[j], SplitPattern) /\ MarkersBefore(j) = n - 1)
    IN  [k \in 1..Len(idx) |-> t[idx[k]]]

\* The whole lines of the n-th fragment, without the header line that
\* splitFile wrote at its opening (every fragment but the first has one).
WholeLinesOf(n) ==
    LET whole == SelectSeq(ReadLines(parts[n]), LAMBDA l : At(l, Len(l) - 1) = "\n")
    IN  IF n = 1 THEN whole ELSE Tail(whole)

\* C11: once splitFile is over, a transcript without a marker has given one
\* fragment, equal to the transcript; and in every case the lines without a
\* marker that follow n - 1 markers are the whole lines of the n-th
\* fragment, unchanged and in their order.
C11_PlainLinesKept ==
    pc = "ls" =>
        /\ Markers = 0 => parts = <<disk[filename].data>>
        /\ \A n \in 1..(Markers + 1) :
              n \in DOMAIN parts /\ WholeLinesOf(n) = PlainLinesOf(n)

\* A transcript with a line before its one marker and a line after it has
\* been split: the first fragment holds the one, the second the other.
C11_Witness ==
    /\ pc = "ls"
    /\ Markers = 1
    /\ Len(PlainLinesOf(1)) = 1
    /\ Len(PlainLinesOf(2)) = 1
    /\ WholeLinesOf(2) = PlainLinesOf(2)

\* ------------------------------------------------------------------------
\* uniqLines on every text of at most MaxUniq pieces, and again on what it
\* wrote.
\* ------------------------------------------------------------------------

MaxUniq == 3

\* A plain line, the same line in colours, another line, that line after
\* the colour of a failure and a 3, and a piece without its newline.
UniqPieces ==
    { "a\n", HEADER \o "a" \o ENDC \o "\n", "b\n", FAILC \o "3b\n", "a" }

UniqTexts == {Concat(t) : t \in SeqsUpTo(UniqPieces, MaxUniq)}

InitUniq ==
    /\ G = Globals0
    /\ args = NoArgs
    /\ disk \in {[EmptyDisk EXCEPT ![finalTime] = [ex |-> TRUE, data |-> t]] : t \in UniqTexts}
    /\ parts = <<>>
    /\ handles = {}
    /\ stdout = <<>>
    /\ pc = "uniq"
    /\ exc = ""
    /\ mn = NoMain
    /\ sf = NoSf
    /\ pf = NoPf
    /\ tr = NoTr
    /\ cl = NoCall
    /\ graded = <<>>

NextUniq ==
    \/ Uniq_First
    \/ Uniq_Again

SpecUniq == InitUniq /\ [][NextUniq]_vars

\* ------------------------------------------------------------------------
\* Deduplication: what is stated of uniqLines
\* ------------------------------------------------------------------------

\* C12: uniqLines on what uniqLines wrote writes the same lines in the same
\* order.
C12_UniqIdempotent ==
    pc = "uniq_done" =>
        ReadLines(disk[pathTmp].data) = ReadLines(disk[timesTmp].data)

\* uniqLines has left out a line of its input, and was run again on what it
\* wrote.
C12_Witness ==
    /\ pc = "uniq_done"
    /\ Len(ReadLines(disk[timesTmp].data)) = 2
    /\ Len(ReadLines(disk[finalTime].data)) = 3

\* The form of a line that uniqLines compares: the line without the escape
\* character, "[0m", "[95m" and "[91m3", taken out in that order.
Stripped(line) ==
    LET noEsc == Concat(Split(line, ESC))
        noEnd == Concat(Split(noEsc, "[0m"))
        noHeader == Concat(Split(noEnd, "[95m"))
    IN  Concat(Split(noHeader, "[91m3"))

\* The lines of the input whose stripped form no earlier line has.
FirstOccurrences(lines) ==
    LET idx == SelectSeq([j \in 1..Len(lines) |-> j],
                         LAMBDA j : \A i \in 1..(j - 1) : Stripped(lines[i]) # Stripped(lines[j]))
    IN  [k \in 1..Len(idx) |-> lines[idx[k]]]

\* C13: what uniqLines wrote is the input's lines whose stripped form no
\* earlier line has, each as it was in the input, in the input's order.
C13_FirstOccurrenceKept ==
    pc \in {"uniq_again", "uniq_done"} =>
        disk[timesTmp].data = Concat(FirstOccurrences(ReadLines(disk[finalTime].data)))

\* The input held a plain line and then the same line in colours, or the
\* other way round, and uniqLines wrote the first of the two only.
C13_Witness ==
    /\ pc = "uniq_again"
    /\ LET lines == ReadLines(disk[finalTime].data)
       IN  /\ Len(lines) >= 2
           /\ lines[1] # lines[2]
           /\ Stripped(lines[1]) = Stripped(lines[2])
           /\ ReadLines(disk[timesTmp].data)[1] = lines[1]
           /\ lines[2] \notin Range(ReadLines(disk[timesTmp].data))

\* ------------------------------------------------------------------------
\* File handles
\* ------------------------------------------------------------------------

\* The handle main itself holds while it classifies (line 352).
OpenedByMain == {<<"r", pathTmp>>}

\* C14, as stated: when the classification has finished, or has stopped on an
\* exception, no handle that processFile or compareLines opened is open.
C14_HandlesClosed ==
    pc \in {"time", "raised"} => handles \subseteq OpenedByMain

\* ------------------------------------------------------------------------
\* similar on every two strings of at most MaxChars characters, called on
\* (a, b) and then on (b, a).
\* ------------------------------------------------------------------------

MaxChars == 3

SimilarStrings == {Concat(t) : t \in SeqsUpTo({"a", "b", "c"}, MaxChars)}

\* similar(line1, line2), as line 98 calls it; the value returned is kept.
Similar_Call ==
    /\ pc = "similar"
    /\ mn' = [mn EXCEPT !.result = <<similar(cl.line1, cl.line2)>>]
    /\ pc' = "similar_swapped"
    /\ UNCHANGED <<G, args, disk, parts, handles, stdout, exc, sf, pf, tr, cl, graded>>

\* similar(line2, line1)
Similar_Swapped ==
    /\ pc = "similar_swapped"
    /\ mn' = [mn EXCEPT !.result = Append(@, similar(cl.line2, cl.line1))]
    /\ pc' = "similar_done"
    /\ UNCHANGED <<G, args, disk, parts, handles, stdout, exc, sf, pf, tr, cl, graded>>

InitSimilar ==
    /\ G = Globals0
    /\ args = NoArgs
    /\ disk = EmptyDisk
    /\ parts = <<>>
    /\ handles = {}
    /\ stdout = <<>>
    /\ pc = "similar"
    /\ exc = ""
    /\ mn = NoMain
    /\ sf = NoSf
    /\ pf = NoPf
    /\ tr = NoTr
    /\ cl \in {[NoCall EXCEPT !.line1 = a, !.line2 = b] : a, b \in SimilarStrings}
    /\ graded = <<>>

NextSimilar ==
    \/ Similar_Call
    \/ Similar_Swapped

SpecSimilar == InitSimilar /\ [][NextSimilar]_vars

\* ------------------------------------------------------------------------
\* Similarity: what is stated of similar
\* ------------------------------------------------------------------------

\* C15, as stated: similar(a, b) is a ratio between 0 and 1, it is 1 when a
\* and b are the same string, and similar(b, a) is the same ratio.
C15_SimilarSymmetric ==
    pc = "similar_done" =>
        LET ab == mn.result[1]
            ba == mn.result[2]
        IN  /\ ab.den > 0
            /\ 0 <= ab.num /\ ab.num <= ab.den
            /\ cl.line1 = cl.line2 => ab.num = ab.den
            /\ ab.num * ba.den = ba.num * ab.den

\* ------------------------------------------------------------------------
\* The exclusion list: what is stated of main
\* ------------------------------------------------------------------------

\* C16, as stated: in a run without --fast the step that builds the
\* exclusion list does not raise, whatever the other options: the run goes
\* on from it to the diff.
C16_ExclusionListBuilt ==
    [][(pc = "exclude" /\ ~args.fast) => (pc' = "diff" /\ exc' = "")]_vars

\* ------------------------------------------------------------------------
\* The classification of up to MaxParts fragments of one pair each, the
\* k-th of a file named fk: all pairs of errors, all pairs of times, or one
\* after the other.
\* ------------------------------------------------------------------------

MaxParts == 10

ErrorFragment(k) == "/* file : f" \o NatStr(k) \o " */\n< abc\n> abd\n"

TimeFragment(k) ==
    "/* file : f" \o NatStr(k) \o " */\n< processing time: 1.0s\n> processing time: 1.3s\n"

OrderRuns ==
    UNION { { [k \in 1..n |-> ErrorFragment(k)],
              [k \in 1..n |-> TimeFragment(k)],
              [k \in 1..n |-> IF k % 2 = 1 THEN ErrorFragment(k) ELSE TimeFragment(k)] }
            : n \in 1..MaxParts }

InitOrder ==
    /\ G = Globals0
    /\ args = NoArgs
    /\ disk = EmptyDisk
    /\ parts \in OrderRuns
    /\ handles = {}
    /\ stdout = <<>>
    /\ pc = "ls"
    /\ exc = ""
    /\ mn = NoMain
    /\ sf = NoSf
    /\ pf = NoPf
    /\ tr = NoTr
    /\ cl = NoCall
    /\ graded = <<>>

NextOrder ==
    \/ Main_Ls
    \/ Main_NextPath
    \/ PF_Open
    \/ PF_Iter
    \/ PF_Close
    \/ Main_PathsDone

SpecOrder == InitOrder /\ [][NextOrder]_vars

\* ------------------------------------------------------------------------
\* The order of classification: what is stated of main
\* ------------------------------------------------------------------------

\* The numbers k of the files fk named by the records of a stream, in the
\* order of the records.
RecordedFiles(name) ==
    LET pieces == Split(disk[name].data, HEADER \o "**/* file : f")
    IN  [i \in 1..(Len(pieces) - 1) |-> DigitsVal(Split(pieces[i + 1], " ")[1])]

Increasing(seq) == \A i, j \in DOMAIN seq : i < j => seq[i] < seq[j]

\* C17, as stated: the fragments are classified in the order 1.part, 2.part,
\* ..., n.part, and once they all are, the records of each stream are in the
\* order of their fragments.
C17_TranscriptOrder ==
    /\ pc = "paths" => mn.paths = [k \in 1..Len(parts) |-> PartName(k) \o "\n"]
    /\ pc = "time" =>
          /\ Increasing(RecordedFiles(outTestsErrors))
          /\ Increasing(RecordedFiles(outTestsTime))

\* ------------------------------------------------------------------------
\* The verdict: what is stated of main
\* ------------------------------------------------------------------------

\* Where a run is once every fragment is classified, up to the verdict.
AfterClassification ==
    {"time", "time_open", "time_loop", "display", "keep", "clean", "verdict"}

\* C18, as stated: a run that has classified every fragment does not stop
\* short of its verdict, and the verdict is SUCCESS when the error stream
\* holds no record of this run, FAIL when it holds one.
C18_Verdict ==
    [][/\ pc \in AfterClassification => pc' # "raised"
       /\ pc = "verdict" =>
            /\ Records(outTestsErrors) = 0 => mn'.result = <<SUCCESS>>
            /\ Records(outTestsErrors) > 0 => mn'.result = <<FAIL>>]_vars

====
